---- MODULE Spec2Model ----
(***************************************************************************)
(* minigrep: parse_config (src/src/lib.rs), run, search,                   *)
(* search_case_insensitive and main (src/src/main.rs).                     *)
(*                                                                         *)
(* Text is a sequence of characters; a character is a one-element string.  *)
(* The non-ASCII characters are named by their code point:                 *)
(*   "U+03A3" GREEK CAPITAL LETTER SIGMA                                   *)
(*   "U+03C3" GREEK SMALL LETTER SIGMA                                     *)
(*   "U+03C2" GREEK SMALL LETTER FINAL SIGMA                               *)
(***************************************************************************)
EXTENDS Naturals, Sequences, FiniteSets

VARIABLES
    args,        \* env::args(): the raw argument list, program name first
    fs,          \* what the file system holds under the file name searched
    pc,          \* where main is
    outcome,     \* how parse_config ended: "none" | "Ok" | "Err" | "Panic"
    config,      \* the Config of an Ok outcome
    err,         \* the &'static str of an Err outcome
    run_result,  \* how run ended: "none" | "Ok" | "NotFound" | "InvalidData"
    stdout,      \* what was printed to standard output, in order
    stderr,      \* what was printed to standard error, in order
    exit_code,   \* the process exit status once pc = "exited"
    s_query,     \* library caller: the query handed to the search functions
    s_contents,  \* library caller: the contents handed to them
    s_called,    \* library caller: which of the two functions have returned
    s_res,       \* library caller: what search returned
    s_res_ci     \* library caller: what search_case_insensitive returned

vars == <<args, fs, pc, outcome, config, err, run_result, stdout, stderr,
          exit_code, s_query, s_contents, s_called, s_res, s_res_ci>>

main_vars == <<args, fs, pc, outcome, config, err, run_result, stdout, stderr,
               exit_code>>

search_vars == <<s_query, s_contents, s_called, s_res, s_res_ci>>

(***************************************************************************)
(* Bounds                                                                  *)
(***************************************************************************)
MaxArgs == 4          \* tokens after the program name
MaxContentsLen == 4   \* characters of contents handed to the search functions
MaxQueryLen == 2      \* characters of the query handed to them

(***************************************************************************)
(* Tokens of the argument lists explored                                   *)
(***************************************************************************)
Prog == <<"m", "i", "n", "i", "g", "r", "e", "p">>
TokI == <<"-", "i">>
TokInsensitive == <<"-", "-", "i", "n", "s", "e", "n", "s", "i", "t", "i", "v", "e">>
TokH == <<"-", "h">>
TokHelp == <<"-", "-", "h", "e", "l", "p">>
TokX == <<"-", "x">>
TokDashDash == <<"-", "-">>
TokTo == <<"t", "o">>
TokPoem == <<"p", "o", "e", "m", ".", "t", "x", "t">>

Tokens == {TokI, TokInsensitive, TokH, TokHelp, TokX, TokDashDash, TokTo, TokPoem}

ArgLists == UNION {[1..n -> Tokens] : n \in 0..MaxArgs}

(***************************************************************************)
(* getopts, as parse_config sets it up and calls it                        *)
(***************************************************************************)
\* opts.optflag("i", "insensitive", ..); opts.optflag("h", "help", ..):
\* two options that take no argument and may occur at most once.
OptGroups ==
    << [short_name |-> <<"i">>,
        long_name |-> <<"i", "n", "s", "e", "n", "s", "i", "t", "i", "v", "e">>],
       [short_name |-> <<"h">>,
        long_name |-> <<"h", "e", "l", "p">>] >>

\* str::starts_with("-")
starts_with_dash(s) == Len(s) >= 1 /\ s[1] = "-"

\* getopts is_arg: a token of more than one character that begins with '-'.
is_arg(s) == Len(s) > 1 /\ s[1] = "-"

\* getopts find_opt: the index of the option a name denotes, 0 when none. A
\* one-character name is a short name, a longer one a long name.
find_opt(nm) ==
    IF \E k \in 1..Len(OptGroups) :
           \/ (Len(nm) = 1 /\ OptGroups[k].short_name = nm)
           \/ (Len(nm) # 1 /\ OptGroups[k].long_name = nm)
    THEN CHOOSE k \in 1..Len(OptGroups) :
           \/ (Len(nm) = 1 /\ OptGroups[k].short_name = nm)
           \/ (Len(nm) # 1 /\ OptGroups[k].long_name = nm)
    ELSE 0

\* The position of the first '=' of s, 0 when there is none.
EqPos(s) ==
    IF \E k \in 1..Len(s) : s[k] = "="
    THEN CHOOSE k \in 1..Len(s) : s[k] = "=" /\ \A j \in 1..(k - 1) : s[j] # "="
    ELSE 0

\* The option names one option token gives: "--name" or "--name=value" gives
\* name; "-abc" gives a, b and c (no option here takes an argument, so the
\* cluster is never cut short).
OptNames(cur) ==
    IF cur[2] = "-"
    THEN LET tail == SubSeq(cur, 3, Len(cur))
             e == EqPos(tail)
         IN  << IF e = 0 THEN tail ELSE SubSeq(tail, 1, e - 1) >>
    ELSE [k \in 1..(Len(cur) - 1) |-> <<cur[k + 1]>>]

\* Whether the token carries an inline value ("--name=value").
HasInlineArg(cur) == cur[2] = "-" /\ EqPos(SubSeq(cur, 3, Len(cur))) # 0

\* Options::parse, the scan of the tokens (ParsingStyle::FloatingFrees): vals
\* counts the occurrences of each option, free collects the free arguments.
RECURSIVE GetoptsScan(_, _, _, _)
GetoptsScan(a, i, vals, free) ==
    IF i > Len(a)
    THEN [fail |-> "", vals |-> vals, free |-> free]
    ELSE LET cur == a[i] IN
         IF ~is_arg(cur)
         THEN GetoptsScan(a, i + 1, vals, Append(free, cur))
         ELSE IF cur = <<"-", "-">>
         THEN [fail |-> "", vals |-> vals,
               free |-> free \o SubSeq(a, i + 1, Len(a))]
         ELSE LET names == OptNames(cur) IN
              IF \E k \in 1..Len(names) : find_opt(names[k]) = 0
              THEN [fail |-> "UnrecognizedOption", vals |-> vals, free |-> free]
              ELSE IF HasInlineArg(cur)
              THEN [fail |-> "UnexpectedArgument", vals |-> vals, free |-> free]
              ELSE GetoptsScan(a, i + 1,
                     [o \in 1..Len(OptGroups) |->
                        vals[o] + Cardinality({k \in 1..Len(names) :
                                                 find_opt(names[k]) = o})],
                     free)

\* Options::parse(&args[1..]): the scan, then the occurrence check (an optflag
\* given twice is Fail::OptionDuplicated).
GetoptsParse(a) ==
    LET r == GetoptsScan(a, 1, [o \in 1..Len(OptGroups) |-> 0], <<>>) IN
    IF r.fail # "" THEN r
    ELSE IF \E o \in 1..Len(OptGroups) : r.vals[o] > 1
    THEN [r EXCEPT !.fail = "OptionDuplicated"]
    ELSE r

\* Matches::opt_present(nm)
opt_present(matches, nm) == matches.vals[find_opt(nm)] > 0

(***************************************************************************)
(* parse_config                                                            *)
(***************************************************************************)
ErrNotEnough == "not enough arguments"
ErrHelp == "it's not error. displayed help page."
ErrPositional == "arguments should be [options] QUERY FILENAME"

NoConfig == [query |-> <<>>, filename |-> <<>>, case_sensitive |-> TRUE]

\* print_usage: one usage text, naming the program.
print_usage(program_name) == <<[kind |-> "usage", text |-> program_name]>>

\* if args.len() < 3
MutTooFewArgs(a) == Len(a) < 2
TooFewArgs(a) == Len(a) < 3

\* let filename = args[args.len() - 1].clone();
MutFilenameOf(a) == a[Len(a) - 1]
FilenameOf(a) == a[Len(a)]

\* let query = args[args.len() - 2].clone();
QueryOf(a) == a[Len(a) - 1]

\* let case_sensitive = if matches.opt_present("i") { false } else { true };
MutCaseSensitiveOf(matches) == TRUE
CaseSensitiveOf(matches) == IF opt_present(matches, <<"i">>) THEN FALSE ELSE TRUE

ParseResult(tag, cfg, e, out) == [tag |-> tag, config |-> cfg, err |-> e, out |-> out]

\* The positional part of parse_config, after the help check (lines 31-51).
MutPositionals(a, matches) ==
    LET f == matches.free IN
    IF Len(f) < 2 \/ starts_with_dash(f[Len(f)]) \/ starts_with_dash(f[Len(f) - 1])
    THEN ParseResult("Err", NoConfig, ErrPositional, <<>>)
    ELSE ParseResult("Ok", [query |-> f[Len(f) - 1], filename |-> f[Len(f)],
                            case_sensitive |-> CaseSensitiveOf(matches)], "", <<>>)
Positionals(a, matches) ==
    IF starts_with_dash(FilenameOf(a))
    THEN ParseResult("Err", NoConfig, ErrPositional, <<>>)
    ELSE IF starts_with_dash(QueryOf(a))
    THEN ParseResult("Err", NoConfig, ErrPositional, <<>>)
    ELSE ParseResult("Ok", [query |-> QueryOf(a), filename |-> FilenameOf(a),
                            case_sensitive |-> CaseSensitiveOf(matches)], "", <<>>)

\* The option part of parse_config (lines 19-29): a failed option parse is
\* unwrapped, which panics; a present help flag prints the usage and returns.
MutAfterOptions(a, matches) ==
    LET p == Positionals(a, matches) IN
    IF p.tag = "Err" THEN p
    ELSE IF opt_present(matches, <<"h">>)
    THEN ParseResult("Err", NoConfig, ErrHelp, print_usage(a[1]))
    ELSE p
AfterOptions(a, matches) ==
    IF opt_present(matches, <<"h">>)
    THEN ParseResult("Err", NoConfig, ErrHelp, print_usage(a[1]))
    ELSE Positionals(a, matches)

parse_config(a) ==
    IF TooFewArgs(a)
    THEN ParseResult("Err", NoConfig, ErrNotEnough, <<>>)
    ELSE LET matches == GetoptsParse(SubSeq(a, 2, Len(a))) IN
         IF matches.fail # ""
         THEN ParseResult("Panic", NoConfig, matches.fail, <<>>)
         ELSE AfterOptions(a, matches)

(***************************************************************************)
(* search and search_case_insensitive                                      *)
(***************************************************************************)
Sigma == "U+03A3"
SmallSigma == "U+03C3"
FinalSigma == "U+03C2"

\* Unicode Cased and Case_Ignorable, on the characters used here.
Cased == {"A", "a", "T", "t", "O", "o", "b", "e", "n", Sigma, SmallSigma, FinalSigma}
CaseIgnorable == {".", ":", "'"}

\* char::to_lowercase, on the characters used here.
to_lower(c) ==
    CASE c = "A" -> "a"
      [] c = "T" -> "t"
      [] c = "O" -> "o"
      [] c = Sigma -> SmallSigma
      [] OTHER -> c

\* str::to_lowercase's case_ignorable_then_cased on the text before position i,
\* read backwards, and on the text after it.
CasedBefore(s, i) ==
    \E j \in 1..(i - 1) :
        /\ s[j] \in Cased
        /\ \A k \in (j + 1)..(i - 1) : s[k] \in CaseIgnorable
CasedAfter(s, i) ==
    \E j \in (i + 1)..Len(s) :
        /\ s[j] \in Cased
        /\ \A k \in (i + 1)..(j - 1) : s[k] \in CaseIgnorable

\* str::to_lowercase: each character's lowercase, except that a capital sigma
\* that ends a word (Final_Sigma) becomes the final small sigma.
to_lowercase(s) ==
    [i \in 1..Len(s) |->
        IF s[i] = Sigma
        THEN IF CasedBefore(s, i) /\ ~CasedAfter(s, i) THEN FinalSigma ELSE SmallSigma
        ELSE to_lower(s[i])]

\* str::contains(needle)
contains(hay, needle) ==
    \E i \in 0..(Len(hay) - Len(needle)) :
        SubSeq(hay, i + 1, i + Len(needle)) = needle

\* The position of the first line feed of s, 0 when there is none.
NewlinePos(s) ==
    IF \E k \in 1..Len(s) : s[k] = "\n"
    THEN CHOOSE k \in 1..Len(s) : s[k] = "\n" /\ \A j \in 1..(k - 1) : s[j] # "\n"
    ELSE 0

\* A line ended by "\n" loses a "\r" before it.
StripCr(l) ==
    IF Len(l) >= 1 /\ l[Len(l)] = "\r" THEN SubSeq(l, 1, Len(l) - 1) ELSE l

\* str::lines: the text between line feeds; a text that ends with a line feed
\* has no empty last line.
RECURSIVE lines(_)
lines(s) ==
    IF s = <<>> THEN <<>>
    ELSE LET k == NewlinePos(s) IN
         IF k = 0 THEN <<s>>
         ELSE <<StripCr(SubSeq(s, 1, k - 1))>> \o lines(SubSeq(s, k + 1, Len(s)))

\* for line in contents.lines() { if line.contains(query) { results.push(line) } }
RECURSIVE MutSearchLoop(_, _, _, _)
MutSearchLoop(query, ls, k, results) ==
    IF k > Len(ls) THEN results
    ELSE MutSearchLoop(query, ls, k + 1,
           IF contains(ls[k], query) /\ \A j \in 1..Len(results) : results[j] # ls[k]
           THEN Append(results, ls[k]) ELSE results)
RECURSIVE SearchLoop(_, _, _, _)
SearchLoop(query, ls, k, results) ==
    IF k > Len(ls) THEN results
    ELSE SearchLoop(query, ls, k + 1,
           IF contains(ls[k], query) THEN Append(results, ls[k]) ELSE results)

search(query, contents) == SearchLoop(query, lines(contents), 1, <<>>)

\* The same loop with line.to_lowercase().contains(&query), query lowercased once.
RECURSIVE SearchCiLoop(_, _, _, _)
SearchCiLoop(query, ls, k, results) ==
    IF k > Len(ls) THEN results
    ELSE SearchCiLoop(query, ls, k + 1,
           IF contains(to_lowercase(ls[k]), query) THEN Append(results, ls[k])
           ELSE results)

search_case_insensitive(query, contents) ==
    SearchCiLoop(to_lowercase(query), lines(contents), 1, <<>>)

(***************************************************************************)
(* run                                                                     *)
(***************************************************************************)
\* What run prints: one line per result, in result order.
PrintedLines(results) == [k \in 1..Len(results) |-> [kind |-> "line", text |-> results[k]]]

\* let results = if config.case_sensitive { search(..) } else { search_case_insensitive(..) };
RunResults(cfg, contents) ==
    IF cfg.case_sensitive
    THEN search(cfg.query, contents)
    ELSE search_case_insensitive(cfg.query, contents)

\* run: File::open(..)? fails when there is no such file, read_to_string(..)?
\* fails when the bytes are not UTF-8, and otherwise every result is printed.
run(cfg, file) ==
    IF file.kind = "missing" THEN [result |-> "NotFound", out |-> <<>>]
    ELSE IF file.kind = "not_utf8" THEN [result |-> "InvalidData", out |-> <<>>]
    ELSE [result |-> "Ok", out |-> PrintedLines(RunResults(cfg, file.contents))]

(***************************************************************************)
(* The process: main                                                       *)
(***************************************************************************)
FileTexts == { <<>>, <<"t", "o", "\n", "T", "o", "\n", "n", "o">> }

FileStates ==
    {[kind |-> "missing", contents |-> <<>>], [kind |-> "not_utf8", contents |-> <<>>]}
    \cup {[kind |-> "text", contents |-> c] : c \in FileTexts}

SearchIdle ==
    /\ s_query = <<>>
    /\ s_contents = <<>>
    /\ s_called = {}
    /\ s_res = <<>>
    /\ s_res_ci = <<>>

MainIdle ==
    /\ args = <<Prog>>
    /\ fs = [kind |-> "missing", contents |-> <<>>]
    /\ pc = "library"
    /\ outcome = "none"
    /\ config = NoConfig
    /\ err = ""
    /\ run_result = "none"
    /\ stdout = <<>>
    /\ stderr = <<>>
    /\ exit_code = 0

Init ==
    /\ args \in {<<Prog>> \o t : t \in ArgLists}
    /\ fs \in FileStates
    /\ pc = "start"
    /\ outcome = "none"
    /\ config = NoConfig
    /\ err = ""
    /\ run_result = "none"
    /\ stdout = <<>>
    /\ stderr = <<>>
    /\ exit_code = 0
    /\ SearchIdle

\* let config = parse_config(&args): the call returns, or its unwrap panics
\* and the process ends with the panic's exit status, 101.
ParseConfig ==
    /\ pc = "start"
    /\ LET r == parse_config(args) IN
       /\ outcome' = r.tag
       /\ config' = r.config
       /\ err' = r.err
       /\ stdout' = stdout \o r.out
       /\ IF r.tag = "Panic"
          THEN /\ pc' = "exited"
               /\ exit_code' = 101
               /\ stderr' = Append(stderr, [kind |-> "panic", text |-> r.err])
          ELSE /\ pc' = "parse_returned"
               /\ UNCHANGED <<exit_code, stderr>>
    /\ UNCHANGED <<args, fs, run_result>>
    /\ UNCHANGED search_vars

\* .unwrap_or_else(|err| { eprintln!("Problem parsing arguments: {}", err); process::exit(1); })
ParseFailed ==
    /\ pc = "parse_returned"
    /\ outcome = "Err"
    /\ stderr' = Append(stderr, [kind |-> "Problem parsing arguments", text |-> err])
    /\ exit_code' = 1
    /\ pc' = "exited"
    /\ UNCHANGED <<args, fs, outcome, config, err, run_result, stdout>>
    /\ UNCHANGED search_vars

\* minigrep::run(config)
Run ==
    /\ pc = "parse_returned"
    /\ outcome = "Ok"
    /\ LET r == run(config, fs) IN
       /\ run_result' = r.result
       /\ stdout' = stdout \o r.out
    /\ pc' = "run_returned"
    /\ UNCHANGED <<args, fs, outcome, config, err, stderr, exit_code>>
    /\ UNCHANGED search_vars

\* if let Err(e) = .. { eprintln!("Application error: {}", e); process::exit(1); }
RunFailed ==
    /\ pc = "run_returned"
    /\ run_result # "Ok"
    /\ stderr' = Append(stderr, [kind |-> "Application error", text |-> run_result])
    /\ exit_code' = 1
    /\ pc' = "exited"
    /\ UNCHANGED <<args, fs, outcome, config, err, run_result, stdout>>
    /\ UNCHANGED search_vars

\* main returns: exit status 0.
MainReturns ==
    /\ pc = "run_returned"
    /\ run_result = "Ok"
    /\ exit_code' = 0
    /\ pc' = "exited"
    /\ UNCHANGED <<args, fs, outcome, config, err, run_result, stdout, stderr>>
    /\ UNCHANGED search_vars

Next == ParseConfig \/ ParseFailed \/ Run \/ RunFailed \/ MainReturns

Spec == Init /\ [][Next]_vars

(***************************************************************************)
(* A caller of the library's two public search functions                   *)
(***************************************************************************)
SearchChars == {"A", "a", Sigma, "\n"}

Texts(n) == UNION {[1..k -> SearchChars] : k \in 0..n}

SearchInit ==
    /\ MainIdle
    /\ s_query \in Texts(MaxQueryLen)
    /\ s_contents \in Texts(MaxContentsLen)
    /\ s_called = {}
    /\ s_res = <<>>
    /\ s_res_ci = <<>>

CallSearch ==
    /\ "search" \notin s_called
    /\ s_res' = search(s_query, s_contents)
    /\ s_called' = s_called \cup {"search"}
    /\ UNCHANGED <<s_query, s_contents, s_res_ci>>
    /\ UNCHANGED main_vars

CallSearchCaseInsensitive ==
    /\ "search_case_insensitive" \notin s_called
    /\ s_res_ci' = search_case_insensitive(s_query, s_contents)
    /\ s_called' = s_called \cup {"search_case_insensitive"}
    /\ UNCHANGED <<s_query, s_contents, s_res>>
    /\ UNCHANGED main_vars

SearchNext == CallSearch \/ CallSearchCaseInsensitive

SearchSpec == SearchInit /\ [][SearchNext]_vars

(***************************************************************************)
(* The argument list, read token by token                                  *)
(***************************************************************************)
InsensitiveTokens == {TokI, TokInsensitive}
HelpTokens == {TokH, TokHelp}
RecognisedFlags == InsensitiveTokens \cup HelpTokens

\* The positions of the argument portion (everything but the program name).
ArgPositions(a) == 2..Len(a)

HasHelpToken(a) == \E k \in ArgPositions(a) : a[k] \in HelpTokens
HasInsensitiveToken(a) == \E k \in ArgPositions(a) : a[k] \in InsensitiveTokens
CountOf(a, S) == Cardinality({k \in ArgPositions(a) : a[k] \in S})

\* Every token that begins with '-' is the insensitive flag, short or long.
OnlyInsensitiveFlags(a) ==
    \A k \in ArgPositions(a) : a[k][1] = "-" => a[k] \in InsensitiveTokens

CleanTail(a) == a[Len(a)][1] # "-" /\ a[Len(a) - 1][1] # "-"

\* The option tokens: those of more than one character that begin with '-'
\* and stand before the first "--", which ends the options.
OptionPositions(a) ==
    {k \in ArgPositions(a) :
        /\ Len(a[k]) > 1
        /\ a[k][1] = "-"
        /\ \A j \in 2..k : a[j] # TokDashDash}

\* Every option token is a recognised flag and neither flag is given twice.
OptionsWellFormed(a) ==
    /\ \A k \in OptionPositions(a) : a[k] \in RecognisedFlags
    /\ Cardinality({k \in OptionPositions(a) : a[k] \in InsensitiveTokens}) <= 1
    /\ Cardinality({k \in OptionPositions(a) : a[k] \in HelpTokens}) <= 1

HelpGiven(a) == \E k \in OptionPositions(a) : a[k] \in HelpTokens

NotRecognisedFlag(t) == t \notin RecognisedFlags

\* The argument portion with the recognised flags removed.
Stripped(a) == SelectSeq(SubSeq(a, 2, Len(a)), NotRecognisedFlag)

UsagePrinted == stdout = <<[kind |-> "usage", text |-> args[1]]>>

C2_NotEnoughArguments ==
    (outcome # "none" /\ Len(args) < 3)
    => /\ outcome = "Err"
       /\ err = ErrNotEnough
       /\ stdout = <<>>
       /\ (pc = "parse_returned" => stderr = <<>>)

\* C2's case: parse_config has returned for a two-token list whose one
\* argument is a help flag.
C2_Witness ==
    /\ pc = "parse_returned"
    /\ Len(args) = 2
    /\ args[2] \in HelpTokens

\* C3, as stated: whenever a help flag is anywhere in the argument portion,
\* parse_config prints the usage message and fails with HelpRequested.
C3_AsStated ==
    (outcome # "none" /\ HasHelpToken(args))
    => /\ outcome = "Err"
       /\ err = ErrHelp
       /\ UsagePrinted

\* C3, amended: whenever the argument list has length >= 3, its option tokens
\* (before any "--") are recognised flags none of which is given twice, and the
\* help flag is among them, parse_config prints the usage message and fails
\* with HelpRequested.
C3_Amended ==
    (/\ outcome # "none"
     /\ Len(args) >= 3
     /\ OptionsWellFormed(args)
     /\ HelpGiven(args))
    => /\ outcome = "Err"
       /\ err = ErrHelp
       /\ UsagePrinted

\* C3's case: the help flag is the last token, where a file name is expected,
\* and parse_config has answered with the help page.
C3_Witness ==
    /\ Len(args) >= 3
    /\ args[Len(args)] \in HelpTokens
    /\ outcome = "Err"
    /\ err = ErrHelp

C5_AsStated ==
    (/\ outcome # "none"
     /\ Len(args) >= 3
     /\ ~HasHelpToken(args)
     /\ OptionsWellFormed(args)
     /\ Len(Stripped(args)) >= 2
     /\ Stripped(args)[Len(Stripped(args))][1] # "-"
     /\ Stripped(args)[Len(Stripped(args)) - 1][1] # "-")
    => /\ outcome = "Ok"
       /\ config.query = Stripped(args)[Len(Stripped(args)) - 1]
       /\ config.filename = Stripped(args)[Len(Stripped(args))]

\* C5, amended: the query and filename of a Config are the last two tokens of
\* the raw argument list, flags not removed; a recognised flag after or between
\* the two positionals yields no Config but the InvalidPositionalArgument error
\* (option tokens well formed, no help flag).
C5_Amended ==
    /\ outcome = "Ok"
       => /\ config.query = args[Len(args) - 1]
          /\ config.filename = args[Len(args)]
    /\ (/\ outcome # "none"
        /\ Len(args) >= 3
        /\ ~HasHelpToken(args)
        /\ OptionsWellFormed(args)
        /\ (args[Len(args)] \in RecognisedFlags \/ args[Len(args) - 1] \in RecognisedFlags))
       => (outcome = "Err" /\ err = ErrPositional)

\* C5's case: `minigrep to poem.txt -i`, the flag after both positionals, has
\* been parsed.
C5_Witness ==
    /\ args = <<Prog, TokTo, TokPoem, TokI>>
    /\ outcome = "Err"
    /\ err = ErrPositional

\* C6: for every argument list of length >= 3 that holds an unrecognised flag or
\* malformed option syntax, parse_config returns a failure value to its caller
\* and the process does not end abnormally.
C6_RecoverableFailure ==
    (/\ outcome # "none"
     /\ Len(args) >= 3
     /\ ~OptionsWellFormed(args))
    => /\ outcome = "Err"
       /\ exit_code # 101

\* C7: the exit status is zero exactly when the run succeeded or help was
\* requested, and non-zero for every other parse failure and every failure of
\* run.
C7_ExitStatus ==
    pc = "exited"
    => (exit_code = 0 <=> (run_result = "Ok" \/ (outcome = "Err" /\ err = ErrHelp)))

\* C10: whenever parse_config rejects a positional tail that begins with '-',
\* the error message is exactly "arguments shoudl be [options] QUERY FILENAME".
C10_MessageOfTests ==
    (/\ outcome = "Err"
     /\ Len(args) >= 3
     /\ ~HasHelpToken(args)
     /\ ~CleanTail(args))
    => err = "arguments shoudl be [options] QUERY FILENAME"

(***************************************************************************)
(* Claims about the search functions (specification SearchSpec)            *)
(***************************************************************************)
SensitiveMatch(l) == contains(l, s_query)
InsensitiveMatch(l) == contains(to_lowercase(l), to_lowercase(s_query))

\* C8: each search variant returns exactly the lines of contents that satisfy
\* its match predicate, in their order, once per occurrence; empty contents
\* yields an empty result.
C8_ExactSelection ==
    /\ "search" \in s_called
       => /\ s_res = SelectSeq(lines(s_contents), SensitiveMatch)
          /\ (s_contents = <<>> => s_res = <<>>)
    /\ "search_case_insensitive" \in s_called
       => /\ s_res_ci = SelectSeq(lines(s_contents), InsensitiveMatch)
          /\ (s_contents = <<>> => s_res_ci = <<>>)

\* C8's case: both functions have returned for a two-line contents of which
\* search keeps one line and search_case_insensitive both.
C8_Witness ==
    /\ s_called = {"search", "search_case_insensitive"}
    /\ Len(lines(s_contents)) = 2
    /\ Len(s_res) = 1
    /\ Len(s_res_ci) = 2

RECURSIVE IsSubsequence(_, _)
IsSubsequence(s, t) ==
    IF s = <<>> THEN TRUE
    ELSE IF t = <<>> THEN FALSE
    ELSE IF Head(s) = Head(t) THEN IsSubsequence(Tail(s), Tail(t))
    ELSE IsSubsequence(s, Tail(t))

\* C9: every line search returns is also returned by search_case_insensitive
\* for the same query and contents: the first result is a subsequence of the
\* second.
C9_SensitiveWithinInsensitive ==
    s_called = {"search", "search_case_insensitive"}
    => /\ \A k \in 1..Len(s_res) : \E j \in 1..Len(s_res_ci) : s_res_ci[j] = s_res[k]
       /\ IsSubsequence(s_res, s_res_ci)

====
